---- MODULE Spec2Model ----
(***************************************************************************)
(* A model of src/src/components/Generator.tsx: the React component that   *)
(* turns an image into ASCII art.  The component state (originalImage,     *)
(* settings, asciiText, the painted canvas, the image loads in flight) is  *)
(* the state of the machine; the event handlers are its actions and the    *)
(* image-processing functions are operators computed as the code computes  *)
(* them.                                                                   *)
(*                                                                         *)
(* Number representation.  JavaScript numbers that are integers in the     *)
(* code (channel values, luminances, counts, indices) are integers here.   *)
(* A quotient of two integers is kept exact as a pair (num, den); den = 0  *)
(* stands for the non-finite result of a division by zero.  brightness and *)
(* the sigmas are held in tenths (the sliders step by 0.1).  Gradient      *)
(* magnitudes are held in hundredths and directions in hundredths of a     *)
(* degree (180 degrees = PI radians).                                      *)
(***************************************************************************)
EXTENDS Integers, Sequences, FiniteSets, TLC

VARIABLES
    originalImage,  \* useState<HTMLImageElement | null>: the decoded image
    settings,       \* useState<Settings>
    asciiText,      \* useState<string>: a sequence of one-character strings
    canvas,         \* what generate painted: per block row, the fill colours
    loading,        \* images whose onload has not fired yet (handleFile awaits)
    events,         \* number of user events handled so far (bounded)
    pc,             \* position of the function under study ("idle" in Spec)
    arg,            \* its arguments
    locals,         \* its local variables when it returned
    ret,            \* its return value
    runs,           \* the runs of generate the effect has made, in order
    selected        \* the image of the image file picked or dropped last

vars == <<originalImage, settings, asciiText, canvas, loading, events, pc, arg, locals, ret,
          runs, selected>>

----------------------------------------------------------------------------
(* Arithmetic helpers for JavaScript's Math functions and typed arrays.     *)

Min(a, b) == IF a < b THEN a ELSE b

Max(a, b) == IF a > b THEN a ELSE b

\* floor(num / den) for den > 0 and any integer num (\div floors in TLA+).
Floor(num, den) == num \div den

\* Math.ceil(num / den) for den > 0.
Ceil(num, den) == -((-num) \div den)

\* Math.round(num / den) for den > 0: floor(x + 0.5).
Round(num, den) == (2 * num + den) \div (2 * den)

\* Storing the number num / den into a Uint8ClampedArray: NaN (den = 0, the
\* result of adding or multiplying with a non-finite alpha and beta) becomes
\* 0, the value is clamped to 0..255 and rounded to the nearest integer,
\* ties to the even one.
ToUint8Clamp(num, den) ==
    IF den = 0 THEN 0
    ELSE LET n == IF den < 0 THEN -num ELSE num
             d == IF den < 0 THEN -den ELSE den
             f == n \div d
             r == 2 * (n - f * d)
         IN  IF n <= 0 THEN 0
             ELSE IF n >= 255 * d THEN 255
             ELSE IF r < d THEN f
             ELSE IF r > d THEN f + 1
             ELSE IF f % 2 = 0 THEN f ELSE f + 1

----------------------------------------------------------------------------
(* ImageData: width, height and the RGBA bytes, row-major.  data[i + 1] is  *)
(* the code's imageData.data[i].                                            *)

null == [width |-> 0, height |-> 0, data |-> <<>>]

ImageData(data, width, height) == [width |-> width, height |-> height, data |-> data]

\* A typed array or plain array as an explicit table of its elements (the
\* same function, held by value).
Array(f) == f @@ <<>>

\* rgbToGrayscale: one luminance per pixel, Math.round(0.299 r + 0.587 g + 0.114 b).
rgbToGrayscale(imageData) ==
    Array([p \in 1..(imageData.width * imageData.height) |->
        LET i == 4 * (p - 1)
            r == imageData.data[i + 1]
            g == imageData.data[i + 2]
            b == imageData.data[i + 3]
        IN  Round(299 * r + 587 * g + 114 * b, 1000)])

----------------------------------------------------------------------------
(* autoBrightnessContrast (the histogram equalizer), local by local.        *)

\* Loops over the 256 bins are split by halves, so that no recursion is
\* deeper than 8 calls; the bins are still visited in the loop's order.
Mid(lo, hi) == (lo + hi) \div 2

\* histogram[gray[i]]++ over all pixels: a bin no pixel hits stays 0.
histogram(gray) ==
    LET hit == {gray[i] : i \in DOMAIN gray}
    IN  Array([v \in 0..255 |->
                 IF v \in hit THEN Cardinality({i \in DOMAIN gray : gray[i] = v})
                 ELSE 0])

\* accumulator[i] = accumulator[i - 1] + histogram[i] for i in lo..hi, as the
\* sequence of these sums; prev is accumulator[lo - 1] (0 before bin 0).
RECURSIVE runningSum(_, _, _, _)
runningSum(hist, lo, hi, prev) ==
    IF lo = hi THEN <<prev + hist[lo]>>
    ELSE LET left == runningSum(hist, lo, Mid(lo, hi), prev)
         IN  left \o runningSum(hist, Mid(lo, hi) + 1, hi, left[Len(left)])

accumulator(hist) ==
    LET sums == runningSum(hist, 0, 255, 0)
    IN  Array([i \in 0..255 |-> sums[i + 1]])

clipPercent == 1

\* Math.floor((max * clipPercent) / 100 / 2)
\* clipHistCount with Math.ceil in place of Math.floor.
clipHistCountCeil(max) == Ceil(max * clipPercent, 200)

clipHistCount(max) == Floor(max * clipPercent, 200)

\* let minGray = 0; while (accumulator[minGray] < clipHistCount) minGray++;
\* minGrayFrom(acc, clip, lo, hi) is where the loop started at lo stops, if
\* it stops within lo..hi, and hi + 1 otherwise.
RECURSIVE minGrayFrom(_, _, _, _)
minGrayFrom(acc, clip, lo, hi) ==
    IF lo = hi THEN (IF acc[lo] < clip THEN lo + 1 ELSE lo)
    ELSE LET g == minGrayFrom(acc, clip, lo, Mid(lo, hi))
         IN  IF g <= Mid(lo, hi) THEN g
             ELSE minGrayFrom(acc, clip, Mid(lo, hi) + 1, hi)

\* The maxGray loop with > in place of >=.
RECURSIVE maxGrayFromStrict(_, _, _, _)
maxGrayFromStrict(acc, bound, lo, hi) ==
    IF lo = hi THEN (IF acc[hi] > bound THEN hi - 1 ELSE hi)
    ELSE LET g == maxGrayFromStrict(acc, bound, Mid(lo, hi) + 1, hi)
         IN  IF g > Mid(lo, hi) THEN g
             ELSE maxGrayFromStrict(acc, bound, lo, Mid(lo, hi))

\* let maxGray = 255; while (accumulator[maxGray] >= max - clipHistCount) maxGray--;
\* maxGrayFrom(acc, bound, lo, hi) is where the loop started at hi stops, if
\* it stops within lo..hi, and lo - 1 otherwise.  At -1 the loop does stop:
\* accumulator[-1] is undefined, and undefined >= n is false.
RECURSIVE maxGrayFrom(_, _, _, _)
maxGrayFrom(acc, bound, lo, hi) ==
    IF lo = hi THEN (IF acc[hi] >= bound THEN hi - 1 ELSE hi)
    ELSE LET g == maxGrayFrom(acc, bound, Mid(lo, hi) + 1, hi)
         IN  IF g > Mid(lo, hi) THEN g
             ELSE maxGrayFrom(acc, bound, lo, Mid(lo, hi))

\* The locals of one call of autoBrightnessContrast.  alpha = 255 / (maxGray -
\* minGray) is the pair (255, maxGray - minGray); beta = -minGray * alpha.
stretchOf(imageData) ==
    LET gray == rgbToGrayscale(imageData)
        acc  == accumulator(histogram(gray))
        max  == acc[255]
        clip == clipHistCount(max)
        lo   == minGrayFrom(acc, clip, 0, 255)
        hi   == maxGrayFrom(acc, max - clip, 0, 255)
    IN  [accumulator |-> acc, max |-> max, clipHistCount |-> clip,
         minGray |-> lo, maxGray |-> hi,
         alpha |-> [num |-> 255, den |-> hi - lo],
         beta  |-> [num |-> -lo * 255, den |-> hi - lo]]

\* result[i] = imageData.data[i] * alpha + beta, stored in a Uint8ClampedArray:
\* (255 v - 255 minGray) / (maxGray - minGray), NaN when the divisor is 0.
stretchChannel(v, st) ==
    ToUint8Clamp(v * st.alpha.num + st.beta.num, st.alpha.den)

autoBrightnessContrast(imageData) ==
    LET st == stretchOf(imageData)
    IN  ImageData(Array([i \in 1..Len(imageData.data) |->
                            stretchChannel(imageData.data[i], st)]),
                  imageData.width, imageData.height)

----------------------------------------------------------------------------
(* The edge detector: Gaussian blur, difference of Gaussians, Sobel.        *)

\* The sigmas the model moves the sliders to, in tenths: 0.1, 0.5, 1.0.
SigmaValues == {1, 5, 10}

\* gaussianKernel(sigma): Math.ceil(6 * sigma) weights exp(-x^2 / (2 sigma^2)),
\* x = i - size / 2, divided by their sum and held in a Float32Array.  Each
\* float32 weight is given exactly, as its numerator over 2^30.
gaussianKernel(sigma) ==
    CASE sigma = 1  -> <<1073741824>>
      [] sigma = 5  -> <<9743901, 531998976, 531998976>>
      [] sigma = 10 -> <<4781144, 58246260, 261041632, 430384896, 261041632, 58246260>>

\* sum += gray[...] * kernel[i] over the taps that fall inside the line, then
\* the store into a Uint8Array, which truncates.  taps is the set of pairs
\* <<pixel value, weight numerator>>, one per tap index; the sum is exact in
\* the code's doubles, and is computed here in two halves of 15 bits to stay
\* within 32-bit integers.
RECURSIVE sumTaps(_, _, _, _)
sumTaps(vals, kernel, i, part) ==
    IF i > Len(kernel) THEN 0
    ELSE (IF part = "hi" THEN vals[i] * (kernel[i] \div 32768)
                         ELSE vals[i] * (kernel[i] % 32768))
         + sumTaps(vals, kernel, i + 1, part)

convolve(vals, kernel) ==
    (sumTaps(vals, kernel, 1, "hi") + (sumTaps(vals, kernel, 1, "lo") \div 32768)) \div 32768

\* applyGaussianBlur: the horizontal pass into temp, the vertical pass into
\* result.  A tap outside the image is skipped (it contributes 0).
applyGaussianBlur(imageData, sigma) ==
    LET width  == imageData.width
        height == imageData.height
        kernel == gaussianKernel(sigma)
        half   == Len(kernel) \div 2
        gray   == rgbToGrayscale(imageData)
        temp   == Array([p \in 1..(width * height) |->
                    LET y == (p - 1) \div width
                        x == (p - 1) % width
                    IN  convolve([i \in 1..Len(kernel) |->
                                    LET ix == x + (i - 1) - half
                                    IN  IF ix >= 0 /\ ix < width
                                        THEN gray[y * width + ix + 1] ELSE 0],
                                 kernel)])
    IN  Array([p \in 1..(width * height) |->
                    LET y == (p - 1) \div width
                        x == (p - 1) % width
                    IN  convolve([i \in 1..Len(kernel) |->
                                    LET iy == y + (i - 1) - half
                                    IN  IF iy >= 0 /\ iy < height
                                        THEN temp[iy * width + x + 1] ELSE 0],
                                 kernel)])

\* differenceOfGaussians: blur(sigma1) - blur(sigma2) + 128, clamped to 0..255.
differenceOfGaussians(imageData, s) ==
    LET blur1 == applyGaussianBlur(imageData, s.sigma1)
        blur2 == applyGaussianBlur(imageData, s.sigma2)
    IN  Array([i \in 1..(imageData.width * imageData.height) |->
                    Max(0, Min(255, blur1[i] - blur2[i] + 128))])

\* The largest r in lo..hi with r * r <= n (lo * lo <= n is given), by bisection.
RECURSIVE isqrtIn(_, _, _)
isqrtIn(n, lo, hi) ==
    IF lo = hi THEN lo
    ELSE LET mid == (lo + hi + 1) \div 2
         IN  IF mid * mid <= n THEN isqrtIn(n, mid, hi) ELSE isqrtIn(n, lo, mid - 1)

\* The largest f in lo..hi with (100 r + f)^2 <= 10000 n, that is with
\* 200 r f + f^2 <= 10000 (n - r^2), by bisection.
RECURSIVE fractionIn(_, _, _, _)
fractionIn(n, r, lo, hi) ==
    IF lo = hi THEN lo
    ELSE LET mid == (lo + hi + 1) \div 2
         IN  IF 200 * r * mid + mid * mid <= 10000 * (n - r * r)
             THEN fractionIn(n, r, mid, hi) ELSE fractionIn(n, r, lo, mid - 1)

\* Math.sqrt(n) in hundredths, rounded down, for 0 <= n <= 2 * 1020^2 (the
\* largest gx^2 + gy^2 of 8-bit data).
sqrt100(n) ==
    LET r == isqrtIn(n, 0, 1443)
    IN  100 * r + fractionIn(n, r, 0, 99)

\* Math.atan(y / x) for 0 <= y, 0 < x in units of 1/10000 degree, by CORDIC
\* rotations through the angles atan(2^-i); x and y are scaled by 1024.
atanStep == <<450000, 265651, 140362, 71250, 35763, 17899, 8952, 4476, 2238,
              1119, 560, 280, 140, 70, 35>>

RECURSIVE cordic(_, _, _, _)
cordic(x, y, i, angle) ==
    IF i > Len(atanStep) \/ y = 0 THEN angle
    ELSE IF y > 0
         THEN cordic(x + y \div (2 ^ (i - 1)), y - x \div (2 ^ (i - 1)), i + 1,
                     angle + atanStep[i])
         ELSE cordic(x - y \div (2 ^ (i - 1)), y + x \div (2 ^ (i - 1)), i + 1,
                     angle - atanStep[i])

\* Math.atan2(gy, gx) in hundredths of a degree, in -18000 < d <= 18000
\* (atan2(0, 0) = 0, atan2(0, negative) = PI).
atan2(gy, gx) ==
    LET ax == IF gx < 0 THEN -gx ELSE gx
        ay == IF gy < 0 THEN -gy ELSE gy
        a  == IF ay = 0 THEN 0
              ELSE IF ax = 0 THEN 9000
              ELSE Round(cordic(1024 * ax, 1024 * ay, 1, 0), 100)
        q  == IF gx >= 0 THEN a ELSE 18000 - a
    IN  IF gy < 0 THEN -q ELSE q

Gx == <<<<-1, 0, 1>>, <<-2, 0, 2>>, <<-1, 0, 1>>>>

Gy == <<<<-1, -2, -1>>, <<0, 0, 0>>, <<1, 2, 1>>>>

\* The 3x3 sum of the inner loops of applySobelFilter with kernel G at (x, y).
sobelSum(grayData, width, x, y, G) ==
    LET px(i, j) == grayData[(y + i - 1) * width + (x + j - 1) + 1]
        row(i) == G[i + 1][1] * px(i, 0) + G[i + 1][2] * px(i, 1) + G[i + 1][3] * px(i, 2)
    IN  row(0) + row(1) + row(2)

\* applySobelFilter: magnitude (hundredths) and direction (hundredths of a
\* degree) per pixel; the border rows and columns are never written and stay 0.
applySobelFilter(grayData, width, height) ==
    LET inner(p) == LET y == (p - 1) \div width
                        x == (p - 1) % width
                    IN  y >= 1 /\ y < height - 1 /\ x >= 1 /\ x < width - 1
        gxAt(p) == sobelSum(grayData, width, (p - 1) % width, (p - 1) \div width, Gx)
        gyAt(p) == sobelSum(grayData, width, (p - 1) % width, (p - 1) \div width, Gy)
    IN  [magnitude |-> Array([p \in 1..(width * height) |->
                          IF inner(p)
                          THEN sqrt100(gxAt(p) * gxAt(p) + gyAt(p) * gyAt(p)) ELSE 0]),
         direction |-> Array([p \in 1..(width * height) |->
                          IF inner(p) THEN atan2(gyAt(p), gxAt(p)) ELSE 0])]

\* A quotient num / den of two numbers of the code, kept exact.
Quot(num, den) == [num |-> num, den |-> den]

\* getEdgeChar(magnitude, direction), for magnitude (hundredths) and direction
\* (hundredths of a degree) given as quotients sum / pixelCount with a
\* positive divisor.  angle = (direction + PI) * (180 / PI) is direction +
\* 18000; index = floor(((angle + 22.5) % 180) / 45).  table[index] is
\* undefined for an index outside 0..7.
threshold == 50

edgeTable == <<"-", "\\", "|", "/", "-", "\\", "|", "/">>

undefined == "undefined"

\* The table index without the offset of 22.5 degrees.
edgeIndexNoOffset(direction) ==
    LET angle == direction.num + 18000 * direction.den
    IN  (angle % (18000 * direction.den)) \div (4500 * direction.den)

edgeIndex(direction) ==
    LET angle == direction.num + 18000 * direction.den
    IN  ((angle + 2250 * direction.den) % (18000 * direction.den))
            \div (4500 * direction.den)

getEdgeChar(magnitude, direction) ==
    IF magnitude.num < 100 * threshold * magnitude.den THEN "null"
    ELSE LET index == edgeIndex(direction)
         IN  IF index \in 0..7 THEN edgeTable[index + 1] ELSE undefined

----------------------------------------------------------------------------
(* The block aggregator and the glyph selector.                             *)

NoEdgeData == [magnitude |-> <<>>, direction |-> <<>>]

\* The loop body with the buffer check i + 4 >= length in place of i + 2 >= length.
visitPixelShortBuffer(info, imageData, ix, iy, edgeData, s) ==
    LET width == imageData.width
        i == (iy * width + ix) * 4
    IN  IF ix >= width \/ iy >= imageData.height \/ i + 4 >= Len(imageData.data)
        THEN info
        ELSE LET r == imageData.data[i + 1]
                 g == imageData.data[i + 2]
                 b == imageData.data[i + 3]
                 gray == Round(299 * r + 587 * g + 114 * b, 1000)
                 edges == s.detectEdges /\ edgeData # NoEdgeData
                 edgeIdx == iy * width + ix
             IN  [sumBrightness |-> info.sumBrightness + gray,
                  sumColor |-> IF s.color
                               THEN <<info.sumColor[1] + r, info.sumColor[2] + g,
                                      info.sumColor[3] + b>>
                               ELSE info.sumColor,
                  pixelCount |-> info.pixelCount + 1,
                  sumMag |-> IF edges THEN info.sumMag + edgeData.magnitude[edgeIdx + 1]
                             ELSE info.sumMag,
                  sumDir |-> IF edges THEN info.sumDir + edgeData.direction[edgeIdx + 1]
                             ELSE info.sumDir]

\* The body of the two loops of calculateBlockInfo for the pixel (ix, iy):
\* the accumulators after it, starting from info.
visitPixel(info, imageData, ix, iy, edgeData, s) ==
    LET width == imageData.width
        i == (iy * width + ix) * 4
    IN  IF ix >= width \/ iy >= imageData.height \/ i + 2 >= Len(imageData.data)
        THEN info
        ELSE LET r == imageData.data[i + 1]
                 g == imageData.data[i + 2]
                 b == imageData.data[i + 3]
                 gray == Round(299 * r + 587 * g + 114 * b, 1000)
                 edges == s.detectEdges /\ edgeData # NoEdgeData
                 edgeIdx == iy * width + ix
             IN  [sumBrightness |-> info.sumBrightness + gray,
                  sumColor |-> IF s.color
                               THEN <<info.sumColor[1] + r, info.sumColor[2] + g,
                                      info.sumColor[3] + b>>
                               ELSE info.sumColor,
                  pixelCount |-> info.pixelCount + 1,
                  sumMag |-> IF edges THEN info.sumMag + edgeData.magnitude[edgeIdx + 1]
                             ELSE info.sumMag,
                  sumDir |-> IF edges THEN info.sumDir + edgeData.direction[edgeIdx + 1]
                             ELSE info.sumDir]

\* let sumBrightness = 0, sumColor = [0, 0, 0], pixelCount = 0, sumMag = 0, sumDir = 0.
noPixels ==
    [sumBrightness |-> 0, sumColor |-> <<0, 0, 0>>, pixelCount |-> 0,
     sumMag |-> 0, sumDir |-> 0]

\* The accumulators after the iterations that lead to a and then those that
\* lead to b from noPixels: every accumulator is a sum over the pixels visited.
plus(a, b) ==
    [sumBrightness |-> a.sumBrightness + b.sumBrightness,
     sumColor |-> <<a.sumColor[1] + b.sumColor[1], a.sumColor[2] + b.sumColor[2],
                    a.sumColor[3] + b.sumColor[3]>>,
     pixelCount |-> a.pixelCount + b.pixelCount,
     sumMag |-> a.sumMag + b.sumMag,
     sumDir |-> a.sumDir + b.sumDir]

\* for (dx = from; dx < blockW; dx++) ... in row dy of the block at (x, y):
\* the first half of the iterations, then the second half.
RECURSIVE blockRow(_, _, _, _, _, _, _, _)
blockRow(imageData, x, y, dx, dy, blockW, edgeData, s) ==
    IF dx >= blockW THEN noPixels
    ELSE IF dx + 1 = blockW
    THEN visitPixel(noPixels, imageData, x + dx, y + dy, edgeData, s)
    ELSE plus(blockRow(imageData, x, y, dx, dy, Mid(dx, blockW), edgeData, s),
              blockRow(imageData, x, y, Mid(dx, blockW), dy, blockW, edgeData, s))

\* for (dy = from; dy < blockH; dy++) for (dx = 0; dx < blockW; dx++) ...
RECURSIVE blockRows(_, _, _, _, _, _, _, _)
blockRows(imageData, x, y, dy, blockW, blockH, edgeData, s) ==
    IF dy >= blockH THEN noPixels
    ELSE IF dy + 1 = blockH
    THEN blockRow(imageData, x, y, 0, dy, blockW, edgeData, s)
    ELSE plus(blockRows(imageData, x, y, dy, blockW, Mid(dy, blockH), edgeData, s),
              blockRows(imageData, x, y, Mid(dy, blockH), blockW, blockH, edgeData, s))

calculateBlockInfo(imageData, x, y, edgeData, s) ==
    LET blockW == Min(s.blockSize, imageData.width - x)
        blockH == Min(s.blockSize, imageData.height - y)
    IN  blockRows(imageData, x, y, 0, blockW, blockH, edgeData, s)

\* The end of selectAsciiChar without the test clampedBrightness === 0.
rampCharNoSpace(clampedBrightness, asciiChars) ==
    LET charIndex == Floor(clampedBrightness * Len(asciiChars), 256)
        k == Min(charIndex, Len(asciiChars) - 1)
    IN  IF k >= 0 /\ k < Len(asciiChars) THEN asciiChars[k + 1] ELSE undefined

\* The end of selectAsciiChar, once no edge glyph was returned.
\* asciiChars[k] is undefined for k outside the string.
rampChar(clampedBrightness, asciiChars) ==
    IF clampedBrightness = 0 THEN " "
    ELSE LET charIndex == Floor(clampedBrightness * Len(asciiChars), 256)
             k == Min(charIndex, Len(asciiChars) - 1)
         IN  IF k >= 0 /\ k < Len(asciiChars) THEN asciiChars[k + 1] ELSE undefined

\* selectAsciiChar with the test for a black block ahead of the edge glyph.
selectAsciiCharSpaceFirst(blockInfo, s) ==
    IF blockInfo.pixelCount = 0 THEN undefined
    ELSE LET avgBrightness == Floor(blockInfo.sumBrightness, blockInfo.pixelCount)
             boostedBrightness == Floor(avgBrightness * s.brightness, 10)
             clampedBrightness == Max(0, Min(255, boostedBrightness))
             edgeChar == IF s.detectEdges
                         THEN getEdgeChar(Quot(blockInfo.sumMag, blockInfo.pixelCount),
                                          Quot(blockInfo.sumDir, blockInfo.pixelCount))
                         ELSE "null"
         IN  IF clampedBrightness = 0 THEN " "
             ELSE IF edgeChar # "null" /\ edgeChar # undefined THEN edgeChar
             ELSE rampChar(clampedBrightness, s.asciiChars)

\* selectAsciiChar.  A block of no pixels has NaN averages: no comparison
\* with NaN holds, the index is NaN and the character is undefined.
selectAsciiChar(blockInfo, s) ==
    IF blockInfo.pixelCount = 0 THEN undefined
    ELSE LET avgBrightness == Floor(blockInfo.sumBrightness, blockInfo.pixelCount)
             boostedBrightness == Floor(avgBrightness * s.brightness, 10)
             clampedBrightness == Max(0, Min(255, boostedBrightness))
             edgeChar == IF s.detectEdges
                         THEN getEdgeChar(Quot(blockInfo.sumMag, blockInfo.pixelCount),
                                          Quot(blockInfo.sumDir, blockInfo.pixelCount))
                         ELSE "null"
         IN  IF edgeChar # "null" /\ edgeChar # undefined THEN edgeChar
             ELSE rampChar(clampedBrightness, s.asciiChars)

\* calculateAverageColor, for a block of at least one pixel.
calculateAverageColor(blockInfo, s) ==
    IF ~s.color THEN <<255, 255, 255>>
    ELSE LET color == [c \in 1..3 |-> Floor(blockInfo.sumColor[c], blockInfo.pixelCount)]
         IN  IF s.invertColor THEN [c \in 1..3 |-> 255 - color[c]] ELSE color

----------------------------------------------------------------------------
(* generate: one run of the pipeline on the decoded image.                  *)

\* rowText += char: string concatenation writes undefined as its name.
charText(char) ==
    IF char = undefined THEN <<"u", "n", "d", "e", "f", "i", "n", "e", "d">>
    ELSE <<char>>

\* imageData after the optional equalization, and the gradient field.
adjusted(image, s) == IF s.autoAdjust THEN autoBrightnessContrast(image) ELSE image

edgeDataOf(imageData, s) ==
    IF s.detectEdges
    THEN applySobelFilter(differenceOfGaussians(imageData, s),
                          imageData.width, imageData.height)
    ELSE NoEdgeData

\* The loop over x with x++ in place of x += blockSize.
RECURSIVE rowOfEveryPixel(_, _, _, _, _)
rowOfEveryPixel(imageData, edgeData, s, x, y) ==
    IF x >= imageData.width THEN [text |-> <<>>, blocks |-> <<>>]
    ELSE LET blockInfo == calculateBlockInfo(imageData, x, y, edgeData, s)
             char  == selectAsciiChar(blockInfo, s)
             color == calculateAverageColor(blockInfo, s)
             rest  == rowOfEveryPixel(imageData, edgeData, s, x + 1, y)
         IN  [text |-> charText(char) \o rest.text,
              blocks |-> <<[x |-> x, y |-> y, blockInfo |-> blockInfo,
                            char |-> char, color |-> color]>> \o rest.blocks]

\* for (x = from; x < width; x += blockSize): the row's text, and per block
\* its origin, its blockInfo, its character and its colour.
RECURSIVE rowOf(_, _, _, _, _)
rowOf(imageData, edgeData, s, x, y) ==
    IF x >= imageData.width THEN [text |-> <<>>, blocks |-> <<>>]
    ELSE LET blockInfo == calculateBlockInfo(imageData, x, y, edgeData, s)
             char  == selectAsciiChar(blockInfo, s)
             color == calculateAverageColor(blockInfo, s)
             rest  == rowOf(imageData, edgeData, s, x + s.blockSize, y)
         IN  [text |-> charText(char) \o rest.text,
              blocks |-> <<[x |-> x, y |-> y, blockInfo |-> blockInfo,
                            char |-> char, color |-> color]>> \o rest.blocks]

\* for (y = from; y < height; y += blockSize): newAsciiText, row by row.
RECURSIVE rowsOf(_, _, _, _)
rowsOf(imageData, edgeData, s, y) ==
    IF y >= imageData.height THEN [text |-> <<>>, blocks |-> <<>>]
    ELSE LET row  == rowOf(imageData, edgeData, s, 0, y)
             rest == rowsOf(imageData, edgeData, s, y + s.blockSize)
         IN  [text |-> row.text \o <<"\n">> \o rest.text,
              blocks |-> <<row.blocks>> \o rest.blocks]

\* outCtx.fillStyle = rgb(color); outCtx.fillText(char, x, y + blockSize), per
\* block, over the background that generate fills the canvas with.
painted(image, s, blocks) ==
    [width |-> image.width, height |-> image.height,
     background |-> IF s.invertColor THEN "#ffffff" ELSE "#000000",
     fill |-> [r \in 1..Len(blocks) |->
                 [c \in 1..Len(blocks[r]) |->
                     [char |-> blocks[r][c].char, color |-> blocks[r][c].color,
                      x |-> blocks[r][c].x, y |-> blocks[r][c].y + s.blockSize]]]]

\* generate: the text it passes to setAsciiText, what it paints on the
\* canvas, and the blocks its loops went through.
generate(image, s) ==
    LET imageData == adjusted(image, s)
        edgeData  == edgeDataOf(imageData, s)
        out       == rowsOf(imageData, edgeData, s, 0)
    IN  [asciiText |-> out.text,
         canvas |-> painted(image, s, out.blocks),
         blocks |-> out.blocks]

----------------------------------------------------------------------------
(* Inputs: the images a user can load and the values the controls can set.  *)

\* Bounds of the model.
MaxSide == 3        \* small images are up to MaxSide x MaxSide pixels
BigSide == 16       \* the side of the large images
MaxRun == 3         \* pixels of the first and of the second tone of an image
MaxBlockSize == 3   \* the block-size slider is moved within 1..MaxBlockSize
MaxRampLen == 257   \* the ramps typed are up to MaxRampLen characters long
MaxPixels == 2      \* blocks handed to selectAsciiChar alone have 1..MaxPixels pixels
MaxEvents == 3      \* user events handled in one session

\* ctx.drawImage(originalImage, 0, 0); ctx.getImageData(0, 0, width, height):
\* the RGBA bytes of an opaque image whose pixels have the colours rgb[p].
decoded(width, height, rgb) ==
    ImageData(Array([i \in 1..(4 * width * height) |->
                        IF i % 4 = 0 THEN 255 ELSE rgb[((i - 1) \div 4) + 1][((i - 1) % 4) + 1]]),
              width, height)

\* An image of up to three tones: k1 pixels of colour a, then k2 of b, then c.
tones(width, height, k1, k2, a, b, c) ==
    decoded(width, height,
            [p \in 1..(width * height) |->
                IF p <= k1 THEN a ELSE IF p <= k1 + k2 THEN b ELSE c])

uniform(width, height, c) == tones(width, height, 0, 0, c, c, c)

\* The left half (x < width / 2, rounded down) of colour a, the rest of colour b.
split(width, height, a, b) ==
    decoded(width, height,
            [p \in 1..(width * height) |->
                IF (p - 1) % width < width \div 2 THEN a ELSE b])

Grey(v) == <<v, v, v>>

Black == Grey(0)

White == Grey(255)

Red == <<255, 0, 0>>

\* Channel values on which the code's double arithmetic and the exact
\* arithmetic of this model round alike.
Palette == {Black, Grey(1), Grey(2), Grey(127), Grey(128), Grey(254), White, Red}

SmallSizes == (1..MaxSide) \X (1..MaxSide)

defaultRamp == <<" ", ".", ":", "-", "=", "+", "*", "#", "%", "@">>

\* A ramp of n characters in which neighbours differ.
rampOfLen(n) == [i \in 1..n |-> defaultRamp[((i - 1) % Len(defaultRamp)) + 1]]

\* useState<Settings>({...}): brightness and the sigmas in tenths.
defaultSettings ==
    [blockSize |-> 8, brightness |-> 10, autoAdjust |-> TRUE, detectEdges |-> FALSE,
     color |-> TRUE, invertColor |-> FALSE, asciiChars |-> defaultRamp,
     sigma1 |-> 5, sigma2 |-> 10]

\* The values the controls set: the block-size slider (1..12), the
\* brightness slider (0.1..2 by 0.1), the check boxes, the sigma sliders and
\* the text field of the ramp.
BlockSizes == (1..MaxBlockSize) \cup {defaultSettings.blockSize}

BrightnessValues == {1, 5, 10, 15, 20}

Ramps == {defaultRamp, <<>>, <<"@">>, <<" ", "@">>}

controlValues(key) ==
    CASE key = "blockSize"   -> BlockSizes
      [] key = "brightness"  -> BrightnessValues
      [] key = "asciiChars"  -> Ramps
      [] key \in {"sigma1", "sigma2"} -> SigmaValues
      [] OTHER -> BOOLEAN

----------------------------------------------------------------------------
(* The component: its state after mounting and its event handlers.  An     *)
(* update of originalImage or settings re-renders the component, and the   *)
(* effect of lines 371-375 then runs generate with the new values; that is *)
(* part of the handler's step.                                             *)

blankCanvas == [width |-> 0, height |-> 0, background |-> "", fill |-> <<>>]

\* The files the user picks or drops: image files, and a file that is no image
\* (its Image never fires onload).
imageFile(image) == [type |-> [major |-> "image", minor |-> "png"], image |-> image]

textFile == [type |-> [major |-> "text", minor |-> "plain"], image |-> null]

Files ==
    {imageFile(uniform(1, 1, White)), imageFile(split(2, 1, Black, White)),
     imageFile(tones(MaxSide, MaxSide, MaxRun, 0, Black, Black, White)), textFile}

Mounted ==
    /\ originalImage = null
    /\ settings = defaultSettings
    /\ asciiText = <<>>
    /\ canvas = blankCanvas
    /\ loading = <<>>
    /\ events = 0
    /\ runs = <<>>
    /\ selected = null

Init ==
    /\ Mounted
    /\ pc = "idle"
    /\ arg = <<>>
    /\ locals = <<>>
    /\ ret = <<>>

\* The effect with a run that adds its text to the text already published.
useEffectKeepingText(image, s) ==
    IF image # null
    THEN LET out == generate(image, s)
         IN  /\ asciiText' = asciiText \o out.asciiText
             /\ canvas' = out.canvas
             /\ runs' = Append(runs, [image |-> image, settings |-> s,
                                      asciiText |-> asciiText', canvas |-> canvas'])
    ELSE UNCHANGED <<asciiText, canvas, runs>>

\* useEffect(() => { if (originalImage) generate(); }, [originalImage, settings])
useEffect(image, s) ==
    IF image # null
    THEN LET out == generate(image, s)
         IN  /\ asciiText' = out.asciiText
             /\ canvas' = out.canvas
             /\ runs' = Append(runs, [image |-> image, settings |-> s,
                                      asciiText |-> asciiText', canvas |-> canvas'])
    ELSE UNCHANGED <<asciiText, canvas, runs>>

\* handleFile up to its await: a new Image starts loading file.
handleFile(file) ==
    /\ events < MaxEvents
    /\ events' = events + 1
    /\ loading' = Append(loading, file.image)
    /\ selected' = IF file.image # null THEN file.image ELSE selected
    /\ UNCHANGED <<originalImage, settings, asciiText, canvas, pc, arg, locals, ret, runs>>

\* handleDrop: the first dropped file goes to handleFile if its type starts
\* with "image/", and is ignored otherwise.
handleDrop(file) ==
    /\ events < MaxEvents
    /\ events' = events + 1
    /\ IF file.type.major = "image"
       THEN loading' = Append(loading, file.image) /\ selected' = file.image
       ELSE UNCHANGED <<loading, selected>>
    /\ UNCHANGED <<originalImage, settings, asciiText, canvas, pc, arg, locals, ret, runs>>

\* img.onload of the i-th load in flight: handleFile resumes after its await
\* and calls setOriginalImage(img); the effect runs generate.
imgOnload(i) ==
    /\ i \in 1..Len(loading)
    /\ loading[i] # null
    /\ originalImage' = loading[i]
    /\ loading' = SubSeq(loading, 1, i - 1) \o SubSeq(loading, i + 1, Len(loading))
    /\ useEffect(originalImage', settings)
    /\ UNCHANGED <<settings, events, pc, arg, locals, ret, selected>>

\* handleSettingChange(key, value) from a control; the sigma sliders are
\* rendered only while detectEdges is on.
handleSettingChange(key, value) ==
    /\ events < MaxEvents
    /\ key \in {"sigma1", "sigma2"} => settings.detectEdges
    /\ events' = events + 1
    /\ settings' = [settings EXCEPT ![key] = value]
    /\ useEffect(originalImage, settings')
    /\ UNCHANGED <<originalImage, loading, pc, arg, locals, ret, selected>>

Next ==
    \/ \E file \in Files : handleFile(file)
    \/ \E file \in Files : handleDrop(file)
    \/ \E i \in 1..MaxEvents : imgOnload(i)
    \/ \E key \in DOMAIN defaultSettings : \E value \in controlValues(key) :
            handleSettingChange(key, value)

Spec == Init /\ [][Next]_vars

----------------------------------------------------------------------------
(* One run of generate on every image and setting of a bounded set.         *)

\* The images of the runs: uniform and split small images, and two large ones.
SmallImage(image) ==
    \/ \E sz \in SmallSizes, c \in {Black, White} : image = uniform(sz[1], sz[2], c)
    \/ \E sz \in SmallSizes : image = split(sz[1], sz[2], Black, White)

BigImage(image) ==
    \/ image = uniform(16, 16, Black)
    \/ image = uniform(BigSide, BigSide, White)
    \/ image = split(BigSide, BigSide \div 2, Black, White)

RunSettings(s, sizes) ==
    \E bs \in sizes, aa \in BOOLEAN, de \in BOOLEAN, co \in BOOLEAN,
       ramp \in {defaultRamp, <<>>} :
        s = [defaultSettings EXCEPT !.blockSize = bs, !.autoAdjust = aa,
                                    !.detectEdges = de, !.color = co,
                                    !.asciiChars = ramp]

\* Small images under every small block size, large ones under the default.
GenerateInit ==
    /\ \/ SmallImage(originalImage) /\ RunSettings(settings, 1..MaxBlockSize)
       \/ BigImage(originalImage) /\ RunSettings(settings, {defaultSettings.blockSize})
    /\ asciiText = <<>>
    /\ canvas = blankCanvas
    /\ loading = <<>>
    /\ events = 0
    /\ runs = <<>>
    /\ selected = null
    /\ pc = "ready"
    /\ arg = <<>>
    /\ locals = <<>>
    /\ ret = <<>>

runGenerate ==
    /\ pc = "ready"
    /\ pc' = "done"
    /\ LET out == generate(originalImage, settings)
       IN  /\ asciiText' = out.asciiText
           /\ canvas' = out.canvas
           /\ locals' = [blocks |-> out.blocks]
    /\ UNCHANGED <<originalImage, settings, loading, events, arg, ret, runs, selected>>

SpecGenerate == GenerateInit /\ [][runGenerate]_vars

----------------------------------------------------------------------------
(* autoBrightnessContrast alone.                                            *)

EqualizeSizes == SmallSizes \cup {<<BigSide, BigSide>>, <<2 * BigSide, BigSide>>}

\* Images of two tones, and images of black, a third tone and white.
EqualizeInput(image) ==
    \/ \E sz \in EqualizeSizes, k \in 0..MaxRun, a \in Palette, c \in Palette :
            image = tones(sz[1], sz[2], k, 0, a, a, c)
    \/ \E sz \in EqualizeSizes, k1 \in 1..MaxRun, k2 \in 1..MaxRun, b \in Palette :
            image = tones(sz[1], sz[2], k1, k2, Black, b, White)

EqualizeInit ==
    /\ Mounted
    /\ pc = "call"
    /\ EqualizeInput(arg)
    /\ locals = <<>>
    /\ ret = <<>>

callAutoBrightnessContrast ==
    /\ pc = "call"
    /\ pc' = "done"
    /\ locals' = stretchOf(arg)
    /\ ret' = autoBrightnessContrast(arg)
    /\ UNCHANGED <<originalImage, settings, asciiText, canvas, loading, events, arg, runs,
                   selected>>

SpecEqualize == EqualizeInit /\ [][callAutoBrightnessContrast]_vars

----------------------------------------------------------------------------
(* selectAsciiChar alone, on the sums of a block of 1..MaxPixels pixels.    *)

\* Average luminances, gradient magnitudes (hundredths) around the threshold
\* and directions (hundredths of a degree) of the blocks.
Luminances == {0, 1, 127, 128, 254, 255}

Magnitudes == {0, 100 * threshold - 1, 100 * threshold, 100 * threshold + 1, 144249}

Directions == {-18000, -9000, -2250, 0, 2249, 2250, 9000, 18000}

blockInfoOf(lum, rest, pixelCount, mag, dir) ==
    [sumBrightness |-> lum * pixelCount + rest, sumColor |-> <<0, 0, 0>>,
     pixelCount |-> pixelCount, sumMag |-> mag * pixelCount + rest,
     sumDir |-> dir * pixelCount]

\* One-pixel blocks of luminance 0 and 255 with ramps of every length, and
\* blocks of every kind with the ramps of the session.
SelectInput(a) ==
    \/ \E lum \in {0, 255}, mag \in {0, 100 * threshold}, br \in {5, 10, 20},
          de \in BOOLEAN, n \in 0..MaxRampLen :
            a = [blockInfo |-> blockInfoOf(lum, 0, 1, mag, 0),
                 settings |-> [defaultSettings EXCEPT !.brightness = br,
                                  !.detectEdges = de, !.asciiChars = rampOfLen(n)]]
    \/ \E lum \in Luminances, rest \in {0, 1}, pixelCount \in 1..MaxPixels,
          mag \in Magnitudes, dir \in Directions, br \in BrightnessValues,
          de \in BOOLEAN, ramp \in Ramps :
            a = [blockInfo |-> blockInfoOf(lum, rest, pixelCount, mag, dir),
                 settings |-> [defaultSettings EXCEPT !.brightness = br,
                                  !.detectEdges = de, !.asciiChars = ramp]]

SelectInit ==
    /\ Mounted
    /\ pc = "call"
    /\ SelectInput(arg)
    /\ locals = <<>>
    /\ ret = <<>>

callSelectAsciiChar ==
    /\ pc = "call"
    /\ pc' = "done"
    /\ ret' = selectAsciiChar(arg.blockInfo, arg.settings)
    /\ UNCHANGED <<originalImage, settings, asciiText, canvas, loading, events, arg, locals,
                   runs, selected>>

SpecSelect == SelectInit /\ [][callSelectAsciiChar]_vars

----------------------------------------------------------------------------
(* getEdgeChar alone, on every direction atan2 can return.                  *)

\* Every direction from -PI to PI with magnitudes around the threshold, as
\* values of one pixel, and multiples of 11.25 degrees as averages of more.
EdgeInput(a) ==
    \/ \E mag \in {100 * threshold - 1, 100 * threshold, 144249}, dir \in -18000..18000 :
            a = [magnitude |-> Quot(mag, 1), direction |-> Quot(dir, 1)]
    \/ \E mag \in Magnitudes, d \in -16..16, n \in 2..(MaxPixels + 1) :
            a = [magnitude |-> Quot(mag * n, n), direction |-> Quot(d * 1125 * n, n)]

EdgeInit ==
    /\ Mounted
    /\ pc = "call"
    /\ EdgeInput(arg)
    /\ locals = <<>>
    /\ ret = <<>>

callGetEdgeChar ==
    /\ pc = "call"
    /\ pc' = "done"
    /\ locals' = [index |-> edgeIndex(arg.direction)]
    /\ ret' = getEdgeChar(arg.magnitude, arg.direction)
    /\ UNCHANGED <<originalImage, settings, asciiText, canvas, loading, events, arg, runs,
                   selected>>

SpecEdge == EdgeInit /\ [][callGetEdgeChar]_vars

----------------------------------------------------------------------------
(* Runs of generate on one image as the controls are moved: the image has   *)
(* been picked and is loading; then settings change, back and forth.        *)

RerunKeys == {"blockSize", "autoAdjust", "color", "invertColor"}

RerunInit ==
    /\ \E file \in Files : file.image # null /\ loading = <<file.image>>
    /\ originalImage = null
    /\ settings = defaultSettings
    /\ asciiText = <<>>
    /\ canvas = blankCanvas
    /\ events = 0
    /\ runs = <<>>
    /\ selected = null
    /\ pc = "idle"
    /\ arg = <<>>
    /\ locals = <<>>
    /\ ret = <<>>

RerunNext ==
    \/ imgOnload(1)
    \/ \E key \in RerunKeys : \E value \in controlValues(key) :
            handleSettingChange(key, value)

SpecRerun == RerunInit /\ [][RerunNext]_vars

C13_LastSelectedWins ==
    (selected # null /\ \A i \in 1..Len(loading) : loading[i] = null) =>
        /\ originalImage = selected
        /\ asciiText = generate(selected, settings).asciiText

----------------------------------------------------------------------------
(* Properties of one run of generate (SpecGenerate).                        *)

rowsOfGrid == Ceil(originalImage.height, settings.blockSize)

colsOfGrid == Ceil(originalImage.width, settings.blockSize)

\* C1: for every image of width W >= 1 and height H >= 1 and every positive
\* blockSize, the text of a run is ceil(H / blockSize) rows of exactly
\* ceil(W / blockSize) glyphs, each row ended by exactly one newline.
C1_GridShape ==
    pc = "done" =>
        /\ Len(asciiText) = rowsOfGrid * (colsOfGrid + 1)
        /\ \A i \in 1..Len(asciiText) :
              (asciiText[i] = "\n") <=> (i % (colsOfGrid + 1) = 0)

\* C2: at every block origin (x, y) the loops of generate visit,
\* calculateBlockInfo counts min(blockSize, W - x) * min(blockSize, H - y)
\* pixels: blockSize squared for an interior block, the truncated extent for
\* a boundary block, never 0.
C2_PixelCount ==
    pc = "done" =>
        \A r \in 1..Len(locals.blocks) : \A c \in 1..Len(locals.blocks[r]) :
            LET b == locals.blocks[r][c]
                w == Min(settings.blockSize, originalImage.width - b.x)
                h == Min(settings.blockSize, originalImage.height - b.y)
            IN  /\ b.x = (c - 1) * settings.blockSize
                /\ b.y = (r - 1) * settings.blockSize
                /\ b.blockInfo.pixelCount = w * h
                /\ b.blockInfo.pixelCount > 0
                /\ (b.x + settings.blockSize <= originalImage.width
                      /\ b.y + settings.blockSize <= originalImage.height)
                   => b.blockInfo.pixelCount = settings.blockSize * settings.blockSize

\* C2 witness: a run with an interior block of blockSize^2 >= 4 pixels and a
\* truncated boundary block.
C2_Witness ==
    /\ pc = "done"
    /\ settings.blockSize >= 2
    /\ \E r \in 1..Len(locals.blocks) : \E c \in 1..Len(locals.blocks[r]) :
          locals.blocks[r][c].blockInfo.pixelCount = settings.blockSize * settings.blockSize
    /\ \E r \in 1..Len(locals.blocks) : \E c \in 1..Len(locals.blocks[r]) :
          locals.blocks[r][c].blockInfo.pixelCount < settings.blockSize * settings.blockSize

\* Scenario A: a uniform black 16x16 image, blockSize 8, the default ramp,
\* autoAdjust, color and detectEdges off.
scenarioAImage == uniform(16, 16, Black)

scenarioASettings ==
    [defaultSettings EXCEPT !.autoAdjust = FALSE, !.color = FALSE, !.detectEdges = FALSE]

InScenarioA ==
    pc = "done" /\ originalImage = scenarioAImage /\ settings = scenarioASettings

\* C4 as stated: scenario A yields two rows of eight spaces, each row ended
\* by a newline.
C4_Original ==
    InScenarioA =>
        asciiText = <<" ", " ", " ", " ", " ", " ", " ", " ", "\n",
                      " ", " ", " ", " ", " ", " ", " ", " ", "\n">>

\* C4 amended: scenario A yields two rows of two spaces (16 / 8 blocks per
\* row), each row ended by a newline.
C4_Amended ==
    InScenarioA => asciiText = <<" ", " ", "\n", " ", " ", "\n">>

\* C4 witness: the run of scenario A has finished.
C4_Witness == InScenarioA

\* C6: a run whose configuration is invalid (an empty ramp, a blockSize that
\* is not positive) aborts and yields no glyph grid: no text is published and
\* nothing is painted.
C6_InvalidConfigAborts ==
    (pc = "done" /\ (Len(settings.asciiChars) = 0 \/ settings.blockSize <= 0)) =>
        asciiText = <<>> /\ canvas = blankCanvas

----------------------------------------------------------------------------
(* Properties of autoBrightnessContrast (SpecEqualize).                     *)

\* g is the smallest bin whose cumulative count is >= num / den.
SmallestBinAtLeast(acc, g, num, den) ==
    /\ g \in 0..255
    /\ den * acc[g] >= num
    /\ \A j \in 0..(g - 1) : den * acc[j] < num

\* g is the largest bin whose cumulative count is < num / den.
LargestBinBelow(acc, g, num, den) ==
    /\ g \in 0..255
    /\ den * acc[g] < num
    /\ \A j \in (g + 1)..255 : den * acc[j] >= num

\* C5: whenever maxGray = minGray the case is guarded: the run fails with
\* DegenerateHistogram or uses a finite alpha, never 255 / 0.
C5_DegenerateGuarded ==
    (pc \in {"done", "failed"} /\ locals.maxGray = locals.minGray) =>
        pc = "failed" \/ locals.alpha.den # 0

\* C7 as stated: with T pixels, minGray is the smallest bin whose cumulative
\* count is >= T * 0.01 / 2 and maxGray the largest bin whose cumulative count
\* is < T - T * 0.01 / 2, the clip amount T / 200 being exact.
C7_Original ==
    pc = "done" =>
        /\ SmallestBinAtLeast(locals.accumulator, locals.minGray, locals.max, 200)
        /\ LargestBinBelow(locals.accumulator, locals.maxGray, 199 * locals.max, 200)

\* C7 amended: the clip amount is floor(T / 200); minGray is the smallest bin
\* whose cumulative count is >= it, and maxGray is the largest bin whose
\* cumulative count is < T - floor(T / 200), or -1 when no bin is.
C7_Amended ==
    pc = "done" =>
        LET T == Len(arg.data) \div 4
            clip == T \div 200
        IN  /\ locals.max = T
            /\ SmallestBinAtLeast(locals.accumulator, locals.minGray, clip, 1)
            /\ \/ LargestBinBelow(locals.accumulator, locals.maxGray, T - clip, 1)
               \/ /\ locals.maxGray = -1
                  /\ \A g \in 0..255 : locals.accumulator[g] >= T - clip

\* C7 witness: an image of at least 200 pixels whose minGray bin holds
\* exactly floor(T / 200) pixels, fewer than T / 200.
C7_Witness ==
    /\ pc = "done"
    /\ locals.max \div 200 >= 1
    /\ locals.minGray \in 1..254
    /\ locals.accumulator[locals.minGray] = locals.max \div 200
    /\ 200 * locals.accumulator[locals.minGray] < locals.max
    /\ locals.maxGray > locals.minGray

\* More than the clipped mass lies at luminance 0 and at luminance 255.
FullyStretched ==
    /\ pc = "done"
    /\ locals.accumulator[0] > locals.clipHistCount
    /\ locals.max - locals.accumulator[254] > locals.clipHistCount

\* C8 as stated: on such an image minGray = 0 and maxGray = 255, so alpha = 1
\* and beta = 0, and every channel value is returned unchanged.
C8_Original ==
    FullyStretched =>
        /\ locals.minGray = 0 /\ locals.maxGray = 255
        /\ ret.data = arg.data

\* C8 amended: on such an image minGray = 0 and maxGray = 254 (bin 255 holds
\* the whole count and is always passed), so alpha = 255 / 254 and beta = 0,
\* and a channel value v is returned as v for v <= 126 and v = 255, and as
\* v + 1 for 127 <= v <= 254.
C8_Amended ==
    FullyStretched =>
        /\ locals.minGray = 0 /\ locals.maxGray = 254
        /\ locals.alpha = Quot(255, 254) /\ locals.beta.num = 0
        /\ \A i \in 1..Len(arg.data) :
              ret.data[i] = IF arg.data[i] <= 126 \/ arg.data[i] = 255
                            THEN arg.data[i] ELSE arg.data[i] + 1

\* C8 witness: a fully stretched image with a channel value in 127..254.
C8_Witness ==
    FullyStretched /\ \E i \in 1..Len(arg.data) : arg.data[i] \in 127..254

\* All pixels of the image in arg have one luminance.
UniformArg ==
    \A p \in 1..Len(rgbToGrayscale(arg)) : rgbToGrayscale(arg)[p] = rgbToGrayscale(arg)[1]

\* C12: for every non-empty image the equalizer derives stretch bounds with
\* 0 <= minGray < maxGray <= 255, so alpha is finite and positive; and a
\* uniform image keeps a luminance that selects, in the default ramp, the
\* glyph of the luminance it had.
C12_StretchBounds ==
    pc = "done" =>
        /\ 0 <= locals.minGray
        /\ locals.minGray < locals.maxGray
        /\ locals.maxGray <= 255
        /\ locals.alpha.den > 0
        /\ UniformArg =>
              rampChar(rgbToGrayscale(ret)[1], defaultRamp)
                  = rampChar(rgbToGrayscale(arg)[1], defaultRamp)

----------------------------------------------------------------------------
(* Properties of selectAsciiChar (SpecSelect) and getEdgeChar (SpecEdge).   *)

avgBrightnessOfArg == arg.blockInfo.sumBrightness \div arg.blockInfo.pixelCount

\* The block's average magnitude reaches the threshold of 50 with detectEdges on.
EdgeOverride ==
    /\ arg.settings.detectEdges
    /\ arg.blockInfo.sumMag >= 100 * 50 * arg.blockInfo.pixelCount

rampLen == Len(arg.settings.asciiChars)

\* C3 as stated: with no edge override, average brightness 0 yields the
\* space whatever the ramp and the multiplier, and average brightness 255
\* with multiplier 1.0 and a ramp of any length N >= 1 yields ramp[N - 1].
C3_Original ==
    (pc = "done" /\ ~EdgeOverride) =>
        /\ avgBrightnessOfArg = 0 => ret = " "
        /\ (avgBrightnessOfArg = 255 /\ arg.settings.brightness = 10 /\ rampLen >= 1)
              => ret = arg.settings.asciiChars[rampLen]

\* C3 amended: with no edge override, average brightness 0 yields the space
\* whatever the ramp and the multiplier; average brightness 255 with
\* multiplier 1.0 yields ramp[N - 1] for a ramp of length 1 <= N <= 256, and
\* ramp[floor(255 N / 256)], an earlier glyph, for a longer ramp.
C3_Amended ==
    (pc = "done" /\ ~EdgeOverride) =>
        /\ avgBrightnessOfArg = 0 => ret = " "
        /\ (avgBrightnessOfArg = 255 /\ arg.settings.brightness = 10 /\ rampLen >= 1)
              => /\ rampLen <= 256 => ret = arg.settings.asciiChars[rampLen]
                 /\ rampLen > 256 =>
                        /\ (255 * rampLen) \div 256 < rampLen - 1
                        /\ ret = arg.settings.asciiChars[((255 * rampLen) \div 256) + 1]

\* C3 witness: a block of brightness 255 under detectEdges with a magnitude
\* below the threshold, multiplier 1.0 and a ramp of 256 characters.
C3_Witness ==
    /\ pc = "done"
    /\ arg.settings.detectEdges /\ ~EdgeOverride
    /\ avgBrightnessOfArg = 255 /\ arg.settings.brightness = 10
    /\ rampLen = 256

\* The glyph of the brightness rule of section 4.6 for the block in arg.
brightnessGlyph ==
    LET boosted == (avgBrightnessOfArg * arg.settings.brightness) \div 10
        clamped == IF boosted > 255 THEN 255 ELSE IF boosted < 0 THEN 0 ELSE boosted
        index == (clamped * rampLen) \div 256
    IN  IF clamped = 0 THEN " "
        ELSE IF rampLen = 0 THEN undefined
        ELSE arg.settings.asciiChars[(IF index > rampLen - 1 THEN rampLen - 1 ELSE index) + 1]

\* C9: with detectEdges on, a block whose average magnitude is >= 50 gets one
\* of the directional glyphs - \ | / whatever its brightness, the multiplier
\* and the ramp; every other block, and every block with detectEdges off,
\* gets the glyph of the brightness rule.
C9_EdgePriority ==
    pc = "done" =>
        IF EdgeOverride THEN ret \in {"-", "\\", "|", "/"}
        ELSE ret = brightnessGlyph

\* C9 witness: a black block (brightness 0) that gets a directional glyph.
C9_Witness ==
    /\ pc = "done"
    /\ EdgeOverride
    /\ avgBrightnessOfArg = 0
    /\ ret \in {"-", "\\", "|", "/"}

\* The angle of arg.direction modulo 180 degrees, times the divisor.
angleMod180 ==
    (arg.direction.num + 18000 * arg.direction.den) % (18000 * arg.direction.den)

\* C10: for every direction atan2 can return and every magnitude >= 50,
\* getEdgeChar's table index is in 0..3 and the glyph is that of four buckets
\* of 45 degrees over the angle modulo 180: [157.5, 180) and [0, 22.5) give
\* '-', [22.5, 67.5) '\', [67.5, 112.5) '|', [112.5, 157.5) '/'.
C10_Buckets ==
    (pc = "done" /\ arg.magnitude.num >= 100 * 50 * arg.magnitude.den) =>
        /\ locals.index \in 0..3
        /\ ret = IF angleMod180 < 2250 * arg.direction.den
                    \/ angleMod180 >= 15750 * arg.direction.den THEN "-"
                 ELSE IF angleMod180 < 6750 * arg.direction.den THEN "\\"
                 ELSE IF angleMod180 < 11250 * arg.direction.den THEN "|"
                 ELSE "/"

\* C10 witness: a direction whose angle modulo 180 lies in [157.5, 180), at
\* a magnitude of exactly 50, mapped to '-'.
C10_Witness ==
    /\ pc = "done"
    /\ arg.magnitude.num = 100 * 50 * arg.magnitude.den
    /\ angleMod180 >= 15750 * arg.direction.den
    /\ ret = "-"

====
